---- MODULE Spec2Model ----
(***************************************************************************)
(* Model of src/api/videos.ts: the video-upload handler                    *)
(* (handlerUploadVideo), the aspect-ratio prober (getVideoAspectRatio),    *)
(* the fast-start remuxer (processVideoForFastStart) and the thumbnail     *)
(* handler (handlerUploadThumbnail).                                       *)
(***************************************************************************)
EXTENDS Integers, Sequences, FiniteSets, TLC

VARIABLES
    db,        \* the record store: video id -> persisted record
    fs,        \* the local filesystem: path -> file, for the paths that exist
    s3,        \* the object store: key -> object, for the keys that exist
    req,       \* per request: its inputs, its position and its local variables
    effects,   \* per request: what it has done so far (history)
    probeArg,  \* prober in isolation: what the ffprobe process did
    probeRet,  \* prober in isolation: the outcome of getVideoAspectRatio
    invocation \* a subprocess invocation in isolation: the process, its pipes
               \* and the position of the function that spawned it

vars == <<db, fs, s3, req, effects, probeArg, probeRet, invocation>>

(***************************************************************************)
(* IEEE-754 binary64 arithmetic, as far as getVideoAspectRatio uses it:    *)
(* `/`, `-`, Math.abs and `<` on JavaScript numbers.  A finite non-zero    *)
(* double is [k |-> "fin", s, e, m]: sign s, and magnitude                 *)
(* (m read as a binary numeral) * 2^(e - 52), where m is a sequence of     *)
(* MantBits bits, most significant first, with m[1] = 1.                   *)
(***************************************************************************)
MantBits == 53

NaN == [k |-> "nan"]
Infinity(s) == [k |-> "inf", s |-> s]
Zero(s) == [k |-> "zero", s |-> s]
Fin(s, e, m) == [k |-> "fin", s |-> s, e |-> e, m |-> m]

Zeros(n) == [i \in 1..n |-> 0]

\* x < y for two bit sequences of the same length.
BvLt(x, y) ==
    \E i \in 1..Len(x) : x[i] < y[i] /\ \A j \in 1..(i - 1) : x[j] = y[j]

\* x + y for two bit sequences of the same length; the result has one bit more.
\* The carry into position i is generated at some lower position j and
\* propagated by every position between.
CarryInto(x, y, i) ==
    \E j \in (i + 1)..Len(x) :
        x[j] + y[j] = 2 /\ \A k \in (i + 1)..(j - 1) : x[k] + y[k] = 1
BvAdd(x, y) ==
    [i \in 1..(Len(x) + 1) |->
        IF i = 1 THEN (IF CarryInto(x, y, 0) THEN 1 ELSE 0)
        ELSE (x[i - 1] + y[i - 1] + (IF CarryInto(x, y, i - 1) THEN 1 ELSE 0)) % 2]

\* x - y for two bit sequences of the same length with x >= y.
BorrowFrom(x, y, i) ==
    \E j \in (i + 1)..Len(x) :
        x[j] < y[j] /\ \A k \in (i + 1)..(j - 1) : x[k] = y[k]
BvSub(x, y) ==
    [i \in 1..Len(x) |->
        (x[i] - y[i] - (IF BorrowFrom(x, y, i) THEN 1 ELSE 0)) % 2]

\* Number of leading zero bits.
BvLeadingZeros(x) ==
    IF \A i \in 1..Len(x) : x[i] = 0 THEN Len(x)
    ELSE (CHOOSE i \in 1..Len(x) : x[i] = 1 /\ \A j \in 1..(i - 1) : x[j] = 0) - 1

\* Round to nearest, ties to even: the exact magnitude is
\* (bits read as a binary numeral) * 2^(e - 52) * 2^-(Len(bits) - MantBits),
\* plus something in (0, one unit of the last bit) when sticky; bits[1] = 1 and
\* Len(bits) >= MantBits.
RoundNearestEven(s, e, bits, sticky) ==
    LET m     == SubSeq(bits, 1, MantBits)
        rest  == SubSeq(bits, MantBits + 1, Len(bits))
        guard == rest # <<>> /\ rest[1] = 1
        below == sticky \/ \E i \in 2..Len(rest) : rest[i] = 1
        up    == guard /\ (below \/ m[MantBits] = 1)
        inc   == BvAdd(m, Zeros(MantBits - 1) \o <<1>>)
    IN  IF ~up THEN Fin(s, e, m)
        ELSE IF inc[1] = 1 THEN Fin(s, e + 1, SubSeq(inc, 1, MantBits))
        ELSE Fin(s, e, Tail(inc))

\* The exponent of n/d: scale until d <= n < 2d.
RECURSIVE Normalize(_, _, _)
Normalize(n, d, e) ==
    IF n < d THEN Normalize(2 * n, d, e - 1)
    ELSE IF n >= 2 * d THEN Normalize(n, 2 * d, e + 1)
    ELSE <<n, d, e>>

\* The k bits of q < 2^k, most significant first.
Pow2(k) == 2 ^ k
BitsOf(q, k) == [i \in 1..k |-> (q \div Pow2(k - i)) % 2]

\* Long division of r/d (r < d): `limbs` limbs of k quotient bits each, then
\* the remainder.
RECURSIVE QuotientBits(_, _, _, _, _)
QuotientBits(r, d, k, limbs, acc) ==
    IF limbs = 0 THEN <<acc, r>>
    ELSE QuotientBits((r * Pow2(k)) % d, d, k, limbs - 1,
                      acc \o BitsOf((r * Pow2(k)) \div d, k))

\* The correctly rounded quotient of two positive integers: the leading bit,
\* MantBits - 1 more bits in four limbs, the guard bit, and the remainder as
\* the sticky bit.
FDivPos(s, n, d) ==
    LET nd == Normalize(n, d, 0)
        q  == QuotientBits(nd[1] - nd[2], nd[2], (MantBits - 1) \div 4, 4, <<1>>)
        g  == QuotientBits(q[2], nd[2], 1, 1, q[1])
    IN  RoundNearestEven(s, nd[3], g[1], g[2] # 0)

\* |a| < |b|, |a| = |b| for finite non-zero doubles.
MagLt(a, b) == a.e < b.e \/ (a.e = b.e /\ BvLt(a.m, b.m))
MagEq(a, b) == a.e = b.e /\ a.m = b.m

\* Both mantissas on the scale of the smaller exponent, equally long.
Aligned(a, b) ==
    LET lo == IF a.e < b.e THEN a.e ELSE b.e
        hi == IF a.e < b.e THEN b.e ELSE a.e
    IN  [lo |-> lo,
         x  |-> Zeros(hi - a.e) \o a.m \o Zeros(a.e - lo),
         y  |-> Zeros(hi - b.e) \o b.m \o Zeros(b.e - lo)]

\* A non-zero exact magnitude, bits * 2^(lo - 52), as a double of sign s.
FromExact(s, lo, bits) ==
    LET z    == BvLeadingZeros(bits)
        sig  == SubSeq(bits, z + 1, Len(bits))
        e    == lo + Len(sig) - MantBits
    IN  IF Len(sig) >= MantBits THEN RoundNearestEven(s, e, sig, FALSE)
        ELSE Fin(s, e, sig \o Zeros(MantBits - Len(sig)))

\* |a| + |b| and |a| - |b| (|a| > |b|) of finite non-zero doubles, rounded.
MagAdd(s, a, b) ==
    LET al == Aligned(a, b) IN FromExact(s, al.lo, BvAdd(al.x, al.y))
MagSub(s, a, b) ==
    LET al == Aligned(a, b) IN FromExact(s, al.lo, BvSub(al.x, al.y))

\* a - b on doubles.
FSub(a, b) ==
    IF a.k = "nan" \/ b.k = "nan" THEN NaN
    ELSE IF a.k = "inf" /\ b.k = "inf"
         THEN (IF a.s = b.s THEN NaN ELSE a)
    ELSE IF a.k = "inf" THEN a
    ELSE IF b.k = "inf" THEN Infinity(-b.s)
    ELSE IF b.k = "zero" THEN a
    ELSE IF a.k = "zero" THEN [b EXCEPT !.s = -b.s]
    ELSE IF a.s # b.s THEN MagAdd(a.s, a, b)
    ELSE IF MagEq(a, b) THEN Zero(1)
    ELSE IF MagLt(a, b) THEN MagSub(-a.s, b, a)
    ELSE MagSub(a.s, a, b)

\* Math.abs
FAbs(a) == IF a.k = "nan" THEN a ELSE [a EXCEPT !.s = 1]

\* a < b on doubles.
FLt(a, b) ==
    IF a.k = "nan" \/ b.k = "nan" THEN FALSE
    ELSE IF a.k = "inf" THEN a.s = -1 /\ ~(b.k = "inf" /\ b.s = -1)
    ELSE IF b.k = "inf" THEN b.s = 1
    ELSE IF a.k = "zero" THEN b.k = "fin" /\ b.s = 1
    ELSE IF b.k = "zero" THEN a.s = -1
    ELSE IF a.s # b.s THEN a.s = -1
    ELSE IF a.s = 1 THEN MagLt(a, b)
    ELSE MagLt(b, a)

\* a / b on doubles given as exact fractions x = xs * xn/xd, y = ys * yn/yd.
FDiv(x, y) ==
    IF x.k = "nan" \/ y.k = "nan" THEN NaN
    ELSE IF y.n = 0 THEN (IF x.n = 0 THEN NaN ELSE Infinity(x.s * y.s))
    ELSE IF x.n = 0 THEN Zero(x.s * y.s)
    ELSE FDivPos(x.s * y.s, x.n * y.d, x.d * y.n)

(***************************************************************************)
(* JavaScript values as JSON.parse yields them from ffprobe's standard     *)
(* output, with the two coercions the prober applies to them: truthiness   *)
(* (`!width`) and ToNumber (`width / height`).  A number is an exact       *)
(* fraction s * n/d with d a power of two; a string is its characters.     *)
(***************************************************************************)
Undefined == [t |-> "undefined"]
Null == [t |-> "null"]
JNumber(s, n, d) == [t |-> "number", s |-> s, n |-> n, d |-> d]
JString(chars) == [t |-> "string", chars |-> chars]
JBoolean(b) == [t |-> "boolean", b |-> b]

Rat(s, n, d) == [k |-> "rat", s |-> s, n |-> n, d |-> d]

Digits == {"0", "1", "2", "3", "4", "5", "6", "7", "8", "9"}
DigitValue(c) ==
    CASE c = "0" -> 0 [] c = "1" -> 1 [] c = "2" -> 2 [] c = "3" -> 3
      [] c = "4" -> 4 [] c = "5" -> 5 [] c = "6" -> 6 [] c = "7" -> 7
      [] c = "8" -> 8 [] c = "9" -> 9

RECURSIVE DecimalValue(_, _)
DecimalValue(chars, acc) ==
    IF chars = <<>> THEN acc
    ELSE DecimalValue(Tail(chars), 10 * acc + DigitValue(Head(chars)))

\* `!v` is false exactly for these.
Truthy(v) ==
    CASE v.t = "undefined" -> FALSE
      [] v.t = "null"      -> FALSE
      [] v.t = "number"    -> v.n # 0
      [] v.t = "string"    -> v.chars # <<>>
      [] v.t = "boolean"   -> v.b

\* ToNumber, for strings of letters and decimal digits.
ToNumber(v) ==
    CASE v.t = "undefined" -> NaN
      [] v.t = "null"      -> Rat(1, 0, 1)
      [] v.t = "number"    -> Rat(v.s, v.n, v.d)
      [] v.t = "boolean"   -> Rat(1, IF v.b THEN 1 ELSE 0, 1)
      [] v.t = "string"    ->
            IF \A i \in 1..Len(v.chars) : v.chars[i] \in Digits
            THEN Rat(1, DecimalValue(v.chars, 0), 1)
            ELSE NaN

(***************************************************************************)
(* getVideoAspectRatio.  `run` is what the ffprobe process did: its exit   *)
(* code and its standard output, either text that is not JSON              *)
(* ([t |-> "garbage"]) or the JSON value it encodes: null, or an object    *)
(* whose "streams" is Undefined or an array of [width, height] objects.    *)
(***************************************************************************)
Throw(e) == [throws |-> TRUE, error |-> e, value |-> ""]
Return(v) == [throws |-> FALSE, error |-> "", value |-> v]

TOLERANCE == FDivPos(1, 5, 100)

\* json.streams?.[0]?.<field>
JArray(items) == [t |-> "array", items |-> items]
FirstStreamField(json, field) ==
    IF json.streams.t = "undefined" THEN Undefined
    ELSE IF json.streams.items = <<>> THEN Undefined
    ELSE json.streams.items[1][field]

Classify(width, height) ==
    LET ratio == FDiv(ToNumber(width), ToNumber(height))
    IN  IF FLt(FAbs(FSub(ratio, FDivPos(1, 16, 9))), TOLERANCE)
        THEN "landscape"
        ELSE IF FLt(FAbs(FSub(ratio, FDivPos(1, 9, 16))), TOLERANCE)
        THEN "portrait"
        ELSE "other"

getVideoAspectRatio(run) ==
    IF run.exited # 0 THEN Throw("ffprobe failed")
    ELSE IF run.stdout.t = "garbage" THEN Throw("SyntaxError")
    ELSE IF run.stdout.t = "null" THEN Throw("TypeError")
    ELSE LET width  == FirstStreamField(run.stdout, "width")
             height == FirstStreamField(run.stdout, "height")
         IN  IF ~Truthy(width) \/ ~Truthy(height)
             THEN Throw("Width or height not found in ffprobe output")
             ELSE Return(Classify(width, height))

(***************************************************************************)
(* The environment of the handlers: configuration, users and credentials,  *)
(* the record store, the uploaded files and what ffprobe reports on them.  *)
(***************************************************************************)
NumRequests == 2
Requests == 1..NumRequests

cfg == [s3Bucket   |-> "tubely-bucket",
        s3Region   |-> "us-east-1",
        jwtSecret  |-> "secret",
        assetsRoot |-> "./assets",
        port       |-> "8091"]

\* Credentials: no Authorization header, or a bearer token.
NoHeader == [present |-> FALSE, sub |-> "", key |-> ""]
BearerToken(sub, key) == [present |-> TRUE, sub |-> sub, key |-> key]
Headers == {NoHeader,
            BearerToken("alice", "secret"),
            BearerToken("bob", "secret"),
            BearerToken("alice", "forged")}

\* ../auth: both throw on a missing or invalid credential (401).
getBearerToken(headers) ==
    IF headers.present THEN Return(headers) ELSE Throw("Unauthorized")
validateJWT(token, secret) ==
    IF token.key = secret THEN Return(token.sub) ELSE Throw("Unauthorized")

\* The path parameter: "" when the route carries none.
VideoIdParams == {"", "v1", "v2", "v9"}

\* ../db/videos: the records that exist, and the store's two operations.
\* alice's v1 has no video yet; bob's v2 has one from an earlier upload.
NoVideo == [id |-> "", userID |-> "", videoURL |-> "", thumbnailURL |-> ""]
InitialVideos ==
    [id \in {"v1", "v2"} |->
        IF id = "v1"
        THEN [id |-> id, userID |-> "alice", videoURL |-> "", thumbnailURL |-> ""]
        ELSE [id |-> id, userID |-> "bob",
              videoURL |-> "https://tubely-bucket.s3.us-east-1.amazonaws.com/landscape/v2.mp4",
              thumbnailURL |-> ""]]
InitialObjects ==
    [k \in {"landscape/v2.mp4"} |->
        [bytes |-> "mp4 1920x1080", type |-> "video/mp4", from |-> "/tmp/v2.mp4"]]
getVideo(store, id) == IF id \in DOMAIN store THEN store[id] ELSE NoVideo
updateVideo(store, video) == [store EXCEPT ![video.id] = video]

\* a << n on 32-bit integers; both uses stay below 2^31.
ShiftLeft(a, n) == a * 2 ^ n

\* The bytes of an upload, named by what they hold, and the run of
\* `ffprobe -select_streams v:0 -show_entries stream=width,height -of json`
\* on a file holding them.
JInt(n) == JNumber(1, n, 1)
ProbeRun(exited, stdout) == [exited |-> exited, stdout |-> stdout]
Garbage == [t |-> "garbage"]
JStreams(streams) == [t |-> "object", streams |-> streams]
OneStream(width, height) ==
    JStreams(JArray(<<[width |-> width, height |-> height]>>))

VideoBytes == {"mp4 1920x1080", "mp4 1080x1920", "mp4 1000x1000", "not a video"}
Ffprobe(bytes) ==
    CASE bytes = "mp4 1920x1080" -> ProbeRun(0, OneStream(JInt(1920), JInt(1080)))
      [] bytes = "mp4 1080x1920" -> ProbeRun(0, OneStream(JInt(1080), JInt(1920)))
      [] bytes = "mp4 1000x1000" -> ProbeRun(0, OneStream(JInt(1000), JInt(1000)))
      [] OTHER                   -> ProbeRun(1, Garbage)

\* The multipart field "video": absent (or not a file), or a File.
NoFile == [isFile |-> FALSE, size |-> 0, type |-> "", bytes |-> ""]
File(size, type, bytes) ==
    [isFile |-> TRUE, size |-> size, type |-> type, bytes |-> bytes]

MAX_UPLOAD_SIZE == ShiftLeft(1, 30)

VideoFields ==
    {NoFile,
     File(4096, "video/mp4", "mp4 1920x1080"),
     File(4096, "video/mp4", "not a video"),
     File(MAX_UPLOAD_SIZE, "video/mp4", "mp4 1080x1920"),
     File(MAX_UPLOAD_SIZE + 1, "video/mp4", "mp4 1920x1080"),
     File(2147483647, "video/mp4", "mp4 1920x1080"),
     File(4096, "video/webm", "mp4 1920x1080")}

(***************************************************************************)
(* handlerUploadVideo, one action per stretch of code between two awaits.  *)
(***************************************************************************)
Pending == [throws |-> FALSE, error |-> "", status |-> 0, body |-> NoVideo]
Thrown(e) == [throws |-> TRUE, error |-> e, status |-> 0, body |-> NoVideo]
respondWithJSON(status, body) ==
    [throws |-> FALSE, error |-> "", status |-> status, body |-> body]

NewRequest ==
    [pc |-> "start", handler |-> "", videoId |-> "", headers |-> NoHeader,
     userID |-> "", video |-> NoVideo, file |-> NoFile, tempFilePath |-> "",
     proc |-> "", aspectRatio |-> "", key |-> "", videoURL |-> "",
     thumbnailFilename |-> "", outcome |-> Pending]

NoEffects ==
    [bodyRead |-> FALSE, wrote |-> {}, spawned |-> <<>>, stored |-> {},
     updated |-> FALSE, removed |-> {}]

\* path.join(dir, name), for a name that is a single path segment.
PathJoin(dir, name) == dir \o "/" \o name

\* Mutant: the ownership check of line 27 is missing.
Authorization_NoOwnerCheck(store, videoId, headers) ==
    IF videoId = "" THEN Throw("BadRequestError")
    ELSE LET token == getBearerToken(headers)
         IN  IF token.throws THEN token
             ELSE LET userID == validateJWT(token.value, cfg.jwtSecret)
                      video  == getVideo(store, videoId)
                  IN  IF userID.throws THEN userID
                      ELSE IF video = NoVideo THEN Throw("NotFoundError")
                      ELSE userID

\* Mutant: the record is looked up (lines 23-26) before the credential is
\* checked (lines 20-21).
Authorization_RecordFirst(store, videoId, headers) ==
    IF videoId = "" THEN Throw("BadRequestError")
    ELSE IF getVideo(store, videoId) = NoVideo THEN Throw("NotFoundError")
    ELSE LET token == getBearerToken(headers)
         IN  IF token.throws THEN token
             ELSE LET userID == validateJWT(token.value, cfg.jwtSecret)
                      video  == getVideo(store, videoId)
                  IN  IF userID.throws THEN userID
                      ELSE IF video.userID # userID.value
                           THEN Throw("UserForbiddenError")
                      ELSE userID

\* Lines 15-29 (and 161-175): the checks before the request body is read.
Authorization(store, videoId, headers) ==
    IF videoId = "" THEN Throw("BadRequestError")
    ELSE LET token == getBearerToken(headers)
         IN  IF token.throws THEN token
             ELSE LET userID == validateJWT(token.value, cfg.jwtSecret)
                      video  == getVideo(store, videoId)
                  IN  IF userID.throws THEN userID
                      ELSE IF video = NoVideo THEN Throw("NotFoundError")
                      ELSE IF video.userID # userID.value
                           THEN Throw("UserForbiddenError")
                      ELSE userID

\* Mutant: the size check of line 36 with >= for >.
ExceedsLimit_Inclusive(size) == size >= MAX_UPLOAD_SIZE

\* Mutant: the media-type check of line 39 is missing.
Validation_NoTypeCheck(file) ==
    IF ~file.isFile THEN Throw("BadRequestError")
    ELSE IF file.size > MAX_UPLOAD_SIZE THEN Throw("BadRequestError")
    ELSE Return("")

\* Lines 33-41: the checks on the form field.
ExceedsLimit(size) == size > MAX_UPLOAD_SIZE
Validation(file) ==
    IF ~file.isFile THEN Throw("BadRequestError")
    ELSE IF ExceedsLimit(file.size) THEN Throw("BadRequestError")
    ELSE IF file.type # "video/mp4" THEN Throw("BadRequestError")
    ELSE Return("")

\* Mutant: the transient file of line 43 under one fixed name.
TempFilePath_Shared(videoId) == PathJoin("/tmp", "upload.mp4")
TempFilePath(videoId) == PathJoin("/tmp", videoId \o ".mp4")
\* Mutant: the key of line 47 without the classification.
StorageKey_NoClassification(aspectRatio, videoId) == videoId \o ".mp4"
StorageKey(aspectRatio, videoId) == aspectRatio \o "/" \o videoId \o ".mp4"
PlaybackURL(key) ==
    "https://" \o cfg.s3Bucket \o ".s3." \o cfg.s3Region \o ".amazonaws.com/" \o key

\* processVideoForFastStart: the path its output is written to.
FastStartPath(inputFilePath) == inputFilePath \o ".processed"

NotCalled == [throws |-> FALSE, error |-> "", value |-> ""]

\* The prober on the bytes an upload can hold, and on a path with no file.
ProbeOutcome == [b \in VideoBytes |-> getVideoAspectRatio(Ffprobe(b))]
ProbeOfMissingFile == getVideoAspectRatio(ProbeRun(1, Garbage))

Finish(r, outcome) == [req EXCEPT ![r].pc = "done", ![r].outcome = outcome]

Authorize(r) ==
    /\ req[r].pc = "start"
    /\ \E videoId \in VideoIdParams, headers \in Headers :
         LET auth == Authorization(db, videoId, headers)
             in   == [req[r] EXCEPT !.handler = "handlerUploadVideo",
                                    !.videoId = videoId, !.headers = headers]
         IN  req' = [req EXCEPT ![r] =
                IF auth.throws
                THEN [in EXCEPT !.pc = "done", !.outcome = Thrown(auth.error)]
                ELSE [in EXCEPT !.pc = "formData", !.userID = auth.value,
                                !.video = getVideo(db, videoId)]]
    /\ UNCHANGED <<db, fs, s3, effects, probeArg, probeRet, invocation>>

Validate(r) ==
    /\ req[r].pc = "formData"
    /\ \E file \in VideoFields :
         LET valid == Validation(file)
             in    == [req[r] EXCEPT !.file = file]
         IN  req' = [req EXCEPT ![r] =
                IF valid.throws
                THEN [in EXCEPT !.pc = "done", !.outcome = Thrown(valid.error)]
                ELSE [in EXCEPT !.pc = "write",
                                !.tempFilePath = TempFilePath(req[r].videoId)]]
    /\ effects' = [effects EXCEPT ![r].bodyRead = TRUE]
    /\ UNCHANGED <<db, fs, s3, probeArg, probeRet, invocation>>

\* Line 44 completes; line 45 spawns ffprobe on the staged file.
Stage(r) ==
    /\ req[r].pc = "write"
    /\ LET path == req[r].tempFilePath
       IN  /\ fs' = [p \in DOMAIN fs \cup {path} |->
                        IF p = path THEN [bytes |-> req[r].file.bytes, owner |-> r]
                        ELSE fs[p]]
           /\ effects' = [effects EXCEPT
                            ![r].wrote = @ \cup {path},
                            ![r].spawned = Append(@, <<"ffprobe", path>>)]
    /\ req' = [req EXCEPT ![r].pc = "probe", ![r].proc = "running"]
    /\ UNCHANGED <<db, s3, probeArg, probeRet, invocation>>

\* Mutant: the key of line 47 with a per-request component.
Probe_KeyPerRequest(r) ==
    /\ req[r].pc = "probe"
    /\ req[r].proc = "running"
    /\ LET path  == req[r].tempFilePath
           ratio == IF path \in DOMAIN fs THEN ProbeOutcome[fs[path].bytes]
                    ELSE ProbeOfMissingFile
       IN  req' = IF ratio.throws THEN Finish(r, Thrown("Error"))
                  ELSE [req EXCEPT ![r].pc = "upload",
                                   ![r].aspectRatio = ratio.value,
                                   ![r].key = StorageKey(ratio.value,
                                       req[r].videoId \o "-" \o ToString(r))]
    /\ UNCHANGED <<db, fs, s3, effects, probeArg, probeRet, invocation>>

\* The ffprobe process of this request is one that never exits: the promises
\* awaited on lines 83-86 never settle, and nothing else ends the wait.
ProbeNeverExits(r) ==
    /\ req[r].pc = "probe"
    /\ req[r].proc = "running"
    /\ req' = [req EXCEPT ![r].proc = "never exits"]
    /\ UNCHANGED <<db, fs, s3, effects, probeArg, probeRet, invocation>>

\* ffprobe has run on whatever the path holds by now; lines 83-112 and 47.
Probe(r) ==
    /\ req[r].pc = "probe"
    /\ req[r].proc = "running"
    /\ LET path  == req[r].tempFilePath
           ratio == IF path \in DOMAIN fs THEN ProbeOutcome[fs[path].bytes]
                    ELSE ProbeOfMissingFile
       IN  req' = IF ratio.throws THEN Finish(r, Thrown("Error"))
                  ELSE [req EXCEPT ![r].pc = "upload",
                                   ![r].aspectRatio = ratio.value,
                                   ![r].key = StorageKey(ratio.value, req[r].videoId)]
    /\ UNCHANGED <<db, fs, s3, effects, probeArg, probeRet, invocation>>

\* Line 48: uploadVideoToS3 puts the file at tempFilePath under key.
Upload(r) ==
    /\ req[r].pc = "upload"
    /\ req[r].tempFilePath \in DOMAIN fs
    /\ LET path == req[r].tempFilePath
           key  == req[r].key
           obj  == [bytes |-> fs[path].bytes, type |-> "video/mp4", from |-> path]
       IN  /\ s3' = [k \in DOMAIN s3 \cup {key} |-> IF k = key THEN obj ELSE s3[k]]
           /\ effects' = [effects EXCEPT ![r].stored = @ \cup {[key |-> key, from |-> path]}]
    /\ req' = [req EXCEPT ![r].pc = "uploaded"]
    /\ UNCHANGED <<db, fs, probeArg, probeRet, invocation>>

\* Mutant: lines 50-52 moved before the upload of line 48.
UploadFails_RecordWrittenFirst(r) ==
    /\ req[r].pc = "upload"
    /\ db' = updateVideo(db, [req[r].video EXCEPT !.videoURL = PlaybackURL(req[r].key)])
    /\ effects' = [effects EXCEPT ![r].updated = TRUE]
    /\ req' = Finish(r, Thrown("Error"))
    /\ UNCHANGED <<fs, s3, probeArg, probeRet, invocation>>

\* Line 48 rejects: a transport or service error, or no file to read.
UploadFails(r) ==
    /\ req[r].pc = "upload"
    /\ req' = Finish(r, Thrown("Error"))
    /\ UNCHANGED <<db, fs, s3, effects, probeArg, probeRet, invocation>>

\* Mutant: lines 50-52 run without waiting for the upload of line 48.
UpdateRecord_BeforeUpload(r) ==
    /\ req[r].pc = "upload"
    /\ LET videoURL == PlaybackURL(req[r].key)
           video    == [req[r].video EXCEPT !.videoURL = videoURL]
       IN  /\ db' = updateVideo(db, video)
           /\ req' = [req EXCEPT ![r].pc = "rm", ![r].videoURL = videoURL,
                                 ![r].video = video]
    /\ effects' = [effects EXCEPT ![r].updated = TRUE]
    /\ UNCHANGED <<fs, s3, probeArg, probeRet, invocation>>

\* Lines 50-52, and line 54 starts the removal.
UpdateRecord(r) ==
    /\ req[r].pc = "uploaded"
    /\ LET videoURL == PlaybackURL(req[r].key)
           video    == [req[r].video EXCEPT !.videoURL = videoURL]
       IN  /\ db' = updateVideo(db, video)
           /\ req' = [req EXCEPT ![r].pc = "rm", ![r].videoURL = videoURL,
                                 ![r].video = video]
    /\ effects' = [effects EXCEPT ![r].updated = TRUE]
    /\ UNCHANGED <<fs, s3, probeArg, probeRet, invocation>>

\* Line 54 completes (rm with force: an absent file is no error); line 56.
Cleanup(r) ==
    /\ req[r].pc = "rm"
    /\ fs' = [p \in DOMAIN fs \ {req[r].tempFilePath} |-> fs[p]]
    /\ effects' = [effects EXCEPT ![r].removed = @ \cup {req[r].tempFilePath}]
    /\ req' = Finish(r, respondWithJSON(200, req[r].video))
    /\ UNCHANGED <<db, s3, probeArg, probeRet, invocation>>

\* Line 54 rejects: rm fails for a reason other than the file being absent.
CleanupFails(r) ==
    /\ req[r].pc = "rm"
    /\ req' = Finish(r, Thrown("Error"))
    /\ UNCHANGED <<db, fs, s3, effects, probeArg, probeRet, invocation>>

(***************************************************************************)
(* handlerUploadThumbnail, one action per stretch of code between awaits.  *)
(***************************************************************************)
THUMBNAIL_MAX_UPLOAD_SIZE == ShiftLeft(10, 20)

\* The multipart field "thumbnail".
ThumbnailFields ==
    {NoFile,
     File(4096, "image/png", "png"),
     File(THUMBNAIL_MAX_UPLOAD_SIZE, "image/jpeg", "jpeg"),
     File(THUMBNAIL_MAX_UPLOAD_SIZE + 1, "image/png", "png"),
     File(4096, "", "png"),
     File(4096, "image/gif", "gif")}

\* randomBytes(32).toString("base64url"): 256 random bits, so a name that no
\* other request is given.
RandomName(r) == "Zm9v" \o ToString(r)

\* Lines 179-194: the checks made before the file's data is read.
ThumbnailValidation(file) ==
    IF ~file.isFile THEN Throw("BadRequestError")
    ELSE IF file.size > THUMBNAIL_MAX_UPLOAD_SIZE THEN Throw("BadRequestError")
    ELSE IF file.type = "" THEN Throw("BadRequestError")
    ELSE Return("")

\* Mutant: the media-type check of line 205 is missing.
ThumbnailTypeCheck_Missing(type) == Return(type)

\* Lines 201-207: the media type is one of the two allowed.
ThumbnailTypeCheck(type) ==
    IF type = "" \/ type \notin {"image/jpeg", "image/png"}
    THEN Throw("BadRequestError")
    ELSE Return(type)

ThumbnailPath(thumbnailFilename) ==
    PathJoin(PathJoin(cfg.assetsRoot, "thumbnails"), thumbnailFilename)
ThumbnailURL(thumbnailFilename) ==
    "http://localhost:" \o cfg.port \o "/assets/thumbnails/" \o thumbnailFilename

\* Lines 161-177: the same checks as lines 15-31.
ThumbnailAuthorize(r) ==
    /\ req[r].pc = "start"
    /\ \E videoId \in VideoIdParams, headers \in Headers :
         LET auth == Authorization(db, videoId, headers)
             in   == [req[r] EXCEPT !.handler = "handlerUploadThumbnail",
                                    !.videoId = videoId, !.headers = headers]
         IN  req' = [req EXCEPT ![r] =
                IF auth.throws
                THEN [in EXCEPT !.pc = "done", !.outcome = Thrown(auth.error)]
                ELSE [in EXCEPT !.pc = "thumbnailFormData", !.userID = auth.value,
                                !.video = getVideo(db, videoId)]]
    /\ UNCHANGED <<db, fs, s3, effects, probeArg, probeRet, invocation>>

\* Lines 178-196, up to the await of file.arrayBuffer().
ThumbnailValidate(r) ==
    /\ req[r].pc = "thumbnailFormData"
    /\ \E file \in ThumbnailFields :
         LET valid == ThumbnailValidation(file)
             in    == [req[r] EXCEPT !.file = file]
         IN  req' = [req EXCEPT ![r] =
                IF valid.throws
                THEN [in EXCEPT !.pc = "done", !.outcome = Thrown(valid.error)]
                ELSE [in EXCEPT !.pc = "arrayBuffer"]]
    /\ effects' = [effects EXCEPT ![r].bodyRead = TRUE]
    /\ UNCHANGED <<db, fs, s3, probeArg, probeRet, invocation>>

\* Lines 197-216, up to the await of Bun.write.
ThumbnailName(r) ==
    /\ req[r].pc = "arrayBuffer"
    /\ LET extension  == ThumbnailTypeCheck(req[r].file.type)
           randomName == RandomName(r)
       IN  req' = IF extension.throws THEN Finish(r, Thrown(extension.error))
                    ELSE [req EXCEPT
                            ![r].pc = "thumbnailWrite",
                            ![r].thumbnailFilename =
                                randomName \o "." \o extension.value]
    /\ UNCHANGED <<db, fs, s3, effects, probeArg, probeRet, invocation>>

\* Line 216 completes; lines 218-221.
ThumbnailSave(r) ==
    /\ req[r].pc = "thumbnailWrite"
    /\ LET path  == ThumbnailPath(req[r].thumbnailFilename)
           video == [req[r].video EXCEPT
                        !.thumbnailURL = ThumbnailURL(req[r].thumbnailFilename)]
       IN  /\ fs' = [p \in DOMAIN fs \cup {path} |->
                        IF p = path THEN [bytes |-> req[r].file.bytes, owner |-> r]
                        ELSE fs[p]]
           /\ db' = updateVideo(db, video)
           /\ effects' = [effects EXCEPT ![r].wrote = @ \cup {path},
                                         ![r].updated = TRUE]
           /\ req' = [req EXCEPT ![r].pc = "done", ![r].video = video,
                                 ![r].outcome = respondWithJSON(200, NoVideo)]
    /\ UNCHANGED <<s3, probeArg, probeRet, invocation>>

\* No subprocess invocation is being followed.
NoInvocation ==
    [fn |-> "", pc |-> "", pending |-> [ch \in {"stdout", "stderr"} |-> 0],
     pipe |-> [ch \in {"stdout", "stderr"} |-> 0],
     text |-> [ch \in {"stdout", "stderr"} |-> 0], exited |-> FALSE,
     exitCode |-> 0]

Init ==
    /\ db = InitialVideos
    /\ fs = [p \in {} |-> NoFile]
    /\ s3 = InitialObjects
    /\ req = [r \in Requests |-> NewRequest]
    /\ effects = [r \in Requests |-> NoEffects]
    /\ probeArg = ProbeRun(0, Garbage)
    /\ probeRet = NotCalled
    /\ invocation = NoInvocation

Next ==
    \E r \in Requests :
        \/ Authorize(r)
        \/ Validate(r)
        \/ Stage(r)
        \/ Probe(r)
        \/ Upload(r)
        \/ UploadFails(r)
        \/ UpdateRecord(r)
        \/ Cleanup(r)
        \/ CleanupFails(r)
        \/ ThumbnailAuthorize(r)
        \/ ThumbnailValidate(r)
        \/ ThumbnailName(r)
        \/ ThumbnailSave(r)

Spec == Init /\ [][Next]_vars

(***************************************************************************)
(* The handlers with processes that may never exit, and the scheduling of  *)
(* the event loop: a continuation runs once the promise it awaits settles. *)
(***************************************************************************)
NextLive ==
    \/ Next
    \/ \E r \in Requests : ProbeNeverExits(r)

Continue(r) ==
    \/ Validate(r)
    \/ Stage(r)
    \/ Probe(r)
    \/ Upload(r)
    \/ UploadFails(r)
    \/ UpdateRecord(r)
    \/ Cleanup(r)
    \/ CleanupFails(r)
    \/ ThumbnailValidate(r)
    \/ ThumbnailName(r)
    \/ ThumbnailSave(r)

SpecLive ==
    Init /\ [][NextLive]_vars /\ \A r \in Requests : WF_vars(Continue(r))

(***************************************************************************)
(* The prober in isolation: getVideoAspectRatio applied to every run of    *)
(* ffprobe in ProbeRuns.                                                   *)
(***************************************************************************)
MaxDim == 12

Resolutions == {180, 311, 329, 1000, 1080, 1866, 1920}
PositiveIntegers == {JInt(n) : n \in (1..MaxDim) \cup Resolutions}
OtherFieldValues ==
    {Undefined, Null, JInt(0), JNumber(-1, 1920, 1), JNumber(1, 3841, 2),
     JString(<<>>), JString(<<"a", "b", "c">>), JString(<<"1", "9", "2", "0">>),
     JString(<<"0">>), JBoolean(TRUE), JBoolean(FALSE)}
FieldValues == PositiveIntegers \cup OtherFieldValues

Stdouts ==
    {Garbage, Null, JStreams(Undefined), JStreams(JArray(<<>>))}
    \cup {OneStream(w, h) : w \in FieldValues, h \in FieldValues}
ProbeRuns ==
    {ProbeRun(0, out) : out \in Stdouts}
    \cup {ProbeRun(1, out) : out \in {Garbage, OneStream(JInt(1920), JInt(1080))}}

InitProbe ==
    /\ db = InitialVideos
    /\ fs = [p \in {} |-> NoFile]
    /\ s3 = InitialObjects
    /\ req = [r \in Requests |-> NewRequest]
    /\ effects = [r \in Requests |-> NoEffects]
    /\ probeArg \in ProbeRuns
    /\ probeRet = NotCalled
    /\ invocation = NoInvocation

CallProbe ==
    /\ probeRet = NotCalled
    /\ probeRet' = getVideoAspectRatio(probeArg)
    /\ UNCHANGED <<db, fs, s3, req, effects, probeArg, invocation>>

NextProbe == CallProbe

SpecProbe == InitProbe /\ [][NextProbe]_vars

(***************************************************************************)
(* A subprocess invocation in isolation: Bun.spawn with stdout and stderr  *)
(* piped, the process writing to the two pipes, and the function that      *)
(* spawned it reading them in the order of its awaits.  A pipe holds at    *)
(* most PipeCapacity units; a write to a full pipe waits for a read, and a *)
(* read sees the end of a pipe when the process has exited.                *)
(***************************************************************************)
PipeCapacity == 2
MaxOutput == 3

Channels == {"stdout", "stderr"}
Subprocesses == {"getVideoAspectRatio", "processVideoForFastStart"}

\* The await each function reaches first after Bun.spawn: line 83, line 141.
FirstAwait(fn) == IF fn = "getVideoAspectRatio" THEN "stdout" ELSE "stderr"

\* The channel the function is reading at a position, "" when none.
Reading(pc) == IF pc \in Channels THEN pc ELSE ""

Spawned(fn, out, err) ==
    [fn |-> fn, pc |-> FirstAwait(fn),
     pending |-> [ch \in Channels |-> IF ch = "stdout" THEN out ELSE err],
     pipe |-> [ch \in Channels |-> 0], text |-> [ch \in Channels |-> 0],
     exited |-> FALSE, exitCode |-> 0]

InitPipe ==
    /\ db = InitialVideos
    /\ fs = [p \in {} |-> NoFile]
    /\ s3 = InitialObjects
    /\ req = [r \in Requests |-> NewRequest]
    /\ effects = [r \in Requests |-> NoEffects]
    /\ probeArg = ProbeRun(0, Garbage)
    /\ probeRet = NotCalled
    /\ invocation \in {Spawned(fn, out, err) :
                          fn \in Subprocesses, out \in 0..MaxOutput, err \in 0..MaxOutput}

\* The process writes one unit to a pipe that has room.
ProcessWrites(ch) ==
    /\ ~invocation.exited
    /\ invocation.pending[ch] > 0
    /\ invocation.pipe[ch] < PipeCapacity
    /\ invocation' = [invocation EXCEPT !.pending[ch] = @ - 1, !.pipe[ch] = @ + 1]
    /\ UNCHANGED <<db, fs, s3, req, effects, probeArg, probeRet>>

\* The process has written all it had to write, and exits.
ProcessExits ==
    /\ invocation.fn # ""
    /\ ~invocation.exited
    /\ \A ch \in Channels : invocation.pending[ch] = 0
    /\ \E code \in {0, 1} :
         invocation' = [invocation EXCEPT !.exited = TRUE, !.exitCode = code]
    /\ UNCHANGED <<db, fs, s3, req, effects, probeArg, probeRet>>

\* new Response(proc.stdout).text() or new Response(proc.stderr).text(),
\* awaited on lines 83, 84 and 141: takes what the pipe holds into the text.
ReadsPipe ==
    /\ Reading(invocation.pc) # ""
    /\ invocation.pipe[invocation.pc] > 0
    /\ invocation' = [invocation EXCEPT
                        !.text[invocation.pc] = @ + invocation.pipe[invocation.pc],
                        !.pipe[invocation.pc] = 0]
    /\ UNCHANGED <<db, fs, s3, req, effects, probeArg, probeRet>>

\* The text() awaited settles at the end of the pipe; the function goes on
\* to its next await: line 84 after line 83, line 86 after line 84, line 142
\* after line 141.
ReadsToEnd ==
    /\ Reading(invocation.pc) # ""
    /\ invocation.pipe[invocation.pc] = 0
    /\ invocation.exited
    /\ invocation' = [invocation EXCEPT !.pc =
            IF invocation.fn = "getVideoAspectRatio" /\ invocation.pc = "stdout"
            THEN "stderr" ELSE "exited"]
    /\ UNCHANGED <<db, fs, s3, req, effects, probeArg, probeRet>>

\* proc.exited, awaited on lines 86 and 142, settles; the function returns
\* or throws by the exit code (lines 88-112, 144-148).
AwaitsExited ==
    /\ invocation.pc = "exited"
    /\ invocation.exited
    /\ invocation' = [invocation EXCEPT !.pc = "returned"]
    /\ UNCHANGED <<db, fs, s3, req, effects, probeArg, probeRet>>

NextPipe ==
    \/ \E ch \in Channels : ProcessWrites(ch)
    \/ ProcessExits
    \/ ReadsPipe
    \/ ReadsToEnd
    \/ AwaitsExited

SpecPipe == InitPipe /\ [][NextPipe]_vars

(***************************************************************************)
(* Properties of the upload handler.                                       *)
(***************************************************************************)
Done(r) == req[r].pc = "done"
IsVideoUpload(r) == req[r].handler = "handlerUploadVideo"
IsThumbnailUpload(r) == req[r].handler = "handlerUploadThumbnail"
\* A video upload answered with 200.
Succeeded(r) == IsVideoUpload(r) /\ Done(r) /\ req[r].outcome.status = 200
Rejected(r, error) ==
    Done(r) /\ req[r].outcome.throws /\ req[r].outcome.error = error
\* The request passed the checks of lines 15-29.
Authorized(r) == req[r].userID # ""
\* The request is past the checks on the form field, passed or not.
FieldChecked(r) == IsVideoUpload(r) /\ Authorized(r) /\ req[r].pc # "formData"
\* The request staged a file and then failed before the record update.
FailedBeforeUpdate(r) ==
    Rejected(r, "Error") /\ effects[r].wrote # {} /\ req[r].videoURL = ""
\* No other request has written the record this request is about.
Undisturbed(r) ==
    \A q \in Requests \ {r} :
        req[q].videoId = req[r].videoId => ~effects[q].updated
\* No other request has staged other bytes under this request's path.
SameBytesStaged(r) ==
    \A q \in Requests \ {r} :
        req[q].tempFilePath = req[r].tempFilePath
            => req[q].file.bytes = req[r].file.bytes

\* C1: a request that staged a transient file leaves none of its transient
\* files on disk once it has completed, whether it succeeded or failed.
C1_NoTransientFileRemains ==
    \A r \in Requests :
        IsVideoUpload(r) /\ Done(r) /\ effects[r].wrote # {}
            => \A p \in DOMAIN fs : fs[p].owner # r

\* C2: a request that fails at the probe or at the storage upload never
\* writes the record, so the record's playback URL is what it read before
\* (when no other request wrote the record); and every playback URL a record
\* holds is the URL of an object that is in the store.
C2_RecordUnchangedOnFailure ==
    /\ \A r \in Requests :
          FailedBeforeUpdate(r)
            => /\ ~effects[r].updated
               /\ Undisturbed(r)
                    => db[req[r].videoId].videoURL = req[r].video.videoURL
    /\ \A id \in DOMAIN db :
          db[id].videoURL # ""
            => \E k \in DOMAIN s3 : db[id].videoURL = PlaybackURL(k)

\* C2 witness: the storage upload failed for a record that had a playback URL
\* before, and the probe failed for another request.
C2_Witness ==
    \E r \in Requests :
        /\ FailedBeforeUpdate(r) /\ req[r].key # "" /\ Undisturbed(r)
        /\ req[r].video.videoURL # ""
        /\ db[req[r].videoId].videoURL = req[r].video.videoURL
        /\ \E q \in Requests : FailedBeforeUpdate(q) /\ req[q].key = ""

\* C3: a request with a missing or invalid credential, for a record that does
\* not exist, or from a user who does not own the record, is rejected with
\* nothing done: no body read, no file written, no process spawned, nothing
\* stored, no record written.
BadCredential(r) ==
    ~req[r].headers.present \/ req[r].headers.key # cfg.jwtSecret
NoSuchRecord(r) == req[r].videoId \notin DOMAIN db
NotOwner(r) ==
    req[r].videoId \in DOMAIN db
        /\ db[req[r].videoId].userID # req[r].headers.sub
C3_RejectedBeforeBodyRead ==
    \A r \in Requests :
        req[r].pc # "start" /\ (BadCredential(r) \/ NoSuchRecord(r) \/ NotOwner(r))
            => /\ Done(r) /\ req[r].outcome.throws
               /\ req[r].outcome.error \in
                    {"BadRequestError", "Unauthorized", "NotFoundError",
                     "UserForbiddenError"}
               /\ effects[r] = NoEffects

\* C3 witness: a non-owner with a valid credential has been turned away.
C3_Witness ==
    \E r \in Requests :
        /\ Rejected(r, "UserForbiddenError")
        /\ ~BadCredential(r) /\ NotOwner(r)

\* C4: an authorized request whose file field is missing, larger than the cap
\* or not declared video/mp4 gets BadRequest, with no file written, no process
\* spawned, nothing stored and the record as it was.
C4_InvalidFileRejected ==
    \A r \in Requests :
        /\ FieldChecked(r)
        /\ \/ ~req[r].file.isFile
           \/ req[r].file.size > 1073741824
           \/ req[r].file.type # "video/mp4"
        => /\ Rejected(r, "BadRequestError")
           /\ effects[r].wrote = {} /\ effects[r].spawned = <<>>
           /\ effects[r].stored = {} /\ ~effects[r].updated
           /\ Undisturbed(r) => db[req[r].videoId] = req[r].video

\* C4 witness: a file of an admissible size declared video/webm was rejected.
C4_Witness ==
    \E r \in Requests :
        /\ IsVideoUpload(r) /\ Rejected(r, "BadRequestError") /\ Authorized(r)
        /\ req[r].file.isFile /\ req[r].file.type = "video/webm"

\* C5: a file of 2^30 + 1 bytes or more is rejected with BadRequest; a
\* video/mp4 file of at most 2^30 bytes is never rejected with BadRequest.
C5_SizeBoundary ==
    \A r \in Requests :
        FieldChecked(r) /\ req[r].file.isFile
            => /\ req[r].file.size >= 1073741825 => Rejected(r, "BadRequestError")
               /\ req[r].file.size <= 1073741824 /\ req[r].file.type = "video/mp4"
                    => ~Rejected(r, "BadRequestError")

\* C5 witness: a file of exactly 2^30 bytes went through, one of 2^30 + 1
\* bytes was rejected.
C5_Witness ==
    /\ \E r \in Requests : Succeeded(r) /\ req[r].file.size = 1073741824
    /\ \E r \in Requests :
          Rejected(r, "BadRequestError") /\ req[r].file.size = 1073741825

\* C8: a successful upload stored its object under
\* "{classification}/{identifier}.mp4", the classification being the
\* prober's, and answered with (and persisted) the playback URL
\* "https://{bucket}.s3.{region}.amazonaws.com/{key}" of that key.
C8_KeyAndPlaybackURL ==
    \A r \in Requests :
        Succeeded(r) \/ (IsVideoUpload(r) /\ effects[r].updated) =>
            LET key == req[r].aspectRatio \o "/" \o req[r].videoId \o ".mp4"
                url == "https://tubely-bucket.s3.us-east-1.amazonaws.com/" \o key
            IN  /\ req[r].aspectRatio \in {"landscape", "portrait", "other"}
                /\ SameBytesStaged(r)
                    => req[r].aspectRatio = ProbeOutcome[req[r].file.bytes].value
                /\ {e.key : e \in effects[r].stored} = {key}
                /\ key \in DOMAIN s3
                /\ effects[r].updated
                /\ Succeeded(r) => req[r].outcome.body.videoURL = url
                /\ Undisturbed(r) => db[req[r].videoId].videoURL = url

\* C8 witness: an upload classified portrait has succeeded.
C8_Witness ==
    \E r \in Requests :
        /\ Succeeded(r) /\ req[r].aspectRatio = "portrait"
        /\ db[req[r].videoId].videoURL =
             "https://tubely-bucket.s3.us-east-1.amazonaws.com/portrait/"
                \o req[r].videoId \o ".mp4"

\* C9: two successful uploads of the same file for the same identifier (with
\* no upload of other bytes for that identifier in between) use the same
\* storage key and the same playback URL, and leave one object, not two.
C9_Idempotent ==
    \A r1 \in Requests, r2 \in Requests :
        /\ r1 # r2 /\ Succeeded(r1) /\ Succeeded(r2)
        /\ req[r1].videoId = req[r2].videoId
        /\ req[r1].file = req[r2].file
        /\ SameBytesStaged(r1)
        => /\ req[r1].key = req[r2].key
           /\ req[r1].outcome.body.videoURL = req[r2].outcome.body.videoURL
           /\ effects[r1].stored = effects[r2].stored
           /\ Cardinality({e.key : e \in effects[r1].stored \cup effects[r2].stored}) = 1

\* C9 witness: the same file has been uploaded twice for the same identifier.
C9_Witness ==
    \E r1 \in Requests, r2 \in Requests :
        /\ r1 # r2 /\ Succeeded(r1) /\ Succeeded(r2)
        /\ req[r1].videoId = req[r2].videoId
        /\ req[r1].file = req[r2].file
        /\ SameBytesStaged(r1)

\* C10: whatever a request hands to the storage upload is the output of the
\* remuxer, which the request has run on its staged file.
C10_UploadsRemuxedFile ==
    \A r \in Requests :
        \A e \in effects[r].stored :
            /\ e.from = FastStartPath(req[r].tempFilePath)
            /\ \E i \in 1..Len(effects[r].spawned) :
                  effects[r].spawned[i][1] = "ffmpeg"

\* The position of a step of handlerUploadVideo in the order of its code.
StepRank(pc) ==
    CASE pc = "start"    -> 0
      [] pc = "formData" -> 1
      [] pc = "write"    -> 2
      [] pc = "probe"    -> 3
      [] pc = "upload"   -> 4
      [] pc = "uploaded" -> 5
      [] pc = "rm"       -> 6
      [] OTHER           -> 7

\* C11: in every step of a video upload the request moves forward in the
\* order of its steps (none is entered twice); it writes its staged file
\* only with a file that passed validation, and once; it spawns the prober
\* only on the file it has staged; it stores an object only after the probe
\* has returned a classification, under that classification's key; and it
\* writes the record only after its object has been stored.
C11_StepsInOrder ==
    [][\A r \in Requests :
          (req[r].handler = "handlerUploadVideo" /\ req'[r] # req[r]) =>
             /\ StepRank(req'[r].pc) > StepRank(req[r].pc)
             /\ effects'[r].wrote # effects[r].wrote
                  => /\ effects[r].wrote = {} /\ effects[r].bodyRead
                     /\ req[r].file.isFile /\ req[r].file.size <= 1073741824
                     /\ req[r].file.type = "video/mp4"
             /\ effects'[r].spawned # effects[r].spawned
                  => /\ effects[r].spawned = <<>>
                     /\ effects'[r].spawned[1][2] \in effects'[r].wrote
             /\ effects'[r].stored # effects[r].stored
                  => /\ effects[r].stored = {} /\ effects[r].spawned # <<>>
                     /\ req[r].aspectRatio \in {"landscape", "portrait", "other"}
                     /\ \A e \in effects'[r].stored :
                           e.key = req[r].aspectRatio \o "/" \o req[r].videoId \o ".mp4"
             /\ effects'[r].updated /\ ~effects[r].updated
                  => /\ effects[r].stored # {}
                     /\ \A e \in effects[r].stored : e.key \in DOMAIN s3
                     /\ db'[req[r].videoId].videoURL =
                          "https://tubely-bucket.s3.us-east-1.amazonaws.com/"
                              \o req[r].key
    ]_vars

\* C11 witness: a video upload has gone through every step.
C11_Witness ==
    \E r \in Requests :
        /\ Succeeded(r) /\ effects[r].wrote # {} /\ effects[r].spawned # <<>>
        /\ effects[r].stored # {} /\ effects[r].updated /\ effects[r].removed # {}

\* The request has staged its file and has not yet finished probing and
\* uploading it.
StagedInFlight(q) ==
    req[q].handler = "handlerUploadVideo" /\ req[q].pc \in {"probe", "upload"}

\* C12: no step of one request overwrites or removes the transient file
\* another request has staged and is still probing or uploading (as a step
\* must when two in-flight requests use the same transient path).
C12_TransientFilesNotShared ==
    [][\A r \in Requests, q \in Requests :
          (r # q /\ StagedInFlight(q) /\ req'[r] # req[r]) =>
             LET path == req[q].tempFilePath
             IN  path \in DOMAIN fs => path \in DOMAIN fs' /\ fs'[path] = fs[path]
    ]_vars

\* No other request, of either handler, is or was about this request's record.
OnlyRequestFor(r) ==
    \A q \in Requests \ {r} : req[q].videoId # req[r].videoId

\* C13: a video upload that is the only request for its identifier, while
\* requests for other identifiers run, has at every point what it would have
\* running alone: its staged file holds its own bytes until it removes it,
\* its classification and key are those of its own file, its object holds its
\* own bytes, the record is the one it read with (once it has written it) its
\* own playback URL, and its answer is that record.
C13_IndependentOfOtherIdentifiers ==
    \A r \in Requests :
        req[r].handler = "handlerUploadVideo" /\ Authorized(r) /\ OnlyRequestFor(r) =>
            LET id    == req[r].videoId
                path  == "/tmp/" \o id \o ".mp4"
                bytes == req[r].file.bytes
                alone == ProbeOutcome[bytes]
                key   == alone.value \o "/" \o id \o ".mp4"
                url   == "https://tubely-bucket.s3.us-east-1.amazonaws.com/" \o key
                mine  == [bytes |-> bytes, owner |-> r]
            IN  /\ req[r].video = [InitialVideos[id] EXCEPT
                                      !.videoURL = IF effects[r].updated THEN url ELSE @]
                /\ db[id] = req[r].video
                /\ \A p \in DOMAIN fs : fs[p].owner = r => p = path
                /\ req[r].pc \in {"probe", "upload", "uploaded", "rm"}
                     => path \in DOMAIN fs /\ fs[path] = mine
                /\ req[r].pc \in {"upload", "uploaded", "rm"} \/ Succeeded(r)
                     => ~alone.throws /\ req[r].key = key
                /\ FailedBeforeUpdate(r)
                     => /\ path \in DOMAIN fs /\ fs[path] = mine
                        /\ req[r].key = "" <=> alone.throws
                /\ effects[r].stored # {}
                     => /\ effects[r].stored = {[key |-> key, from |-> path]}
                        /\ s3[key] = [bytes |-> bytes, type |-> "video/mp4", from |-> path]
                /\ Succeeded(r)
                     => path \notin DOMAIN fs /\ req[r].outcome.body = db[id]

\* C13 witness: two video uploads for different identifiers are in flight
\* together, each past its record update, one classified landscape and the
\* other portrait.
C13_Witness ==
    \E r \in Requests, q \in Requests :
        /\ req[r].handler = "handlerUploadVideo" /\ req[q].handler = "handlerUploadVideo"
        /\ req[r].videoId # req[q].videoId
        /\ req[r].pc = "rm" /\ req[q].pc = "rm"
        /\ req[r].aspectRatio = "landscape" /\ req[q].aspectRatio = "portrait"

\* C14: a video upload that has stored its object and written the record
\* answers 200 with the record, whatever becomes of the removal of its
\* transient file.
C14_CleanupFailureNotSurfaced ==
    \A r \in Requests :
        /\ req[r].handler = "handlerUploadVideo" /\ Done(r)
        /\ effects[r].stored # {} /\ effects[r].updated
        => /\ ~req[r].outcome.throws
           /\ req[r].outcome.status = 200
           /\ req[r].outcome.body = req[r].video

\* C15: a video upload that has spawned its process completes, and one
\* whose process never exits completes with an error.
C15_SubprocessBoundedByTimeout ==
    \A r \in Requests :
        /\ (effects[r].spawned # <<>>) ~> Done(r)
        /\ (req[r].proc = "never exits") ~> Rejected(r, "Error")

\* C16: no step changes a record's owner; a step changes a record's playback
\* URL only if it is the record update of a video upload for that record
\* whose object has been stored; and a step changes a record's thumbnail URL
\* only if it is the save of a thumbnail upload for that record.
C16_OnlyOwnFieldWritten ==
    [][\A id \in DOMAIN db :
          /\ db'[id].userID = db[id].userID
          /\ db'[id].videoURL # db[id].videoURL
               => \E r \in Requests :
                     /\ req[r].handler = "handlerUploadVideo" /\ req[r].videoId = id
                     /\ req[r].pc = "uploaded" /\ req'[r].pc = "rm"
                     /\ effects[r].stored # {}
          /\ db'[id].thumbnailURL # db[id].thumbnailURL
               => \E r \in Requests :
                     /\ req[r].handler = "handlerUploadThumbnail" /\ req[r].videoId = id
                     /\ req[r].pc = "thumbnailWrite" /\ req'[r].pc = "done"
    ]_vars

InvalidFile(r) ==
    IF req[r].handler = "handlerUploadVideo"
    THEN \/ ~req[r].file.isFile
         \/ req[r].file.size > 1073741824
         \/ req[r].file.type # "video/mp4"
    ELSE \/ ~req[r].file.isFile
         \/ req[r].file.size > 10485760
         \/ req[r].file.type \notin {"image/jpeg", "image/png"}

\* C18: a request of either handler that fails a check is rejected with the
\* error of the first check it fails, in the order: path identifier
\* (BadRequest), credential (Unauthorized), record (NotFound), owner
\* (Forbidden), file (BadRequest); the first four without its body being
\* read, so whatever file it carries.
C18_FirstFailingCheckReported ==
    \A r \in Requests :
        req[r].pc # "start" =>
            IF req[r].videoId = "" THEN
                Rejected(r, "BadRequestError") /\ ~effects[r].bodyRead
            ELSE IF BadCredential(r) THEN
                Rejected(r, "Unauthorized") /\ ~effects[r].bodyRead
            ELSE IF NoSuchRecord(r) THEN
                Rejected(r, "NotFoundError") /\ ~effects[r].bodyRead
            ELSE IF NotOwner(r) THEN
                Rejected(r, "UserForbiddenError") /\ ~effects[r].bodyRead
            ELSE /\ req[r].userID = req[r].headers.sub
                 /\ effects[r].bodyRead /\ InvalidFile(r)
                      => \/ Rejected(r, "BadRequestError")
                         \/ req[r].pc = "arrayBuffer"
                 /\ Done(r) /\ req[r].outcome.throws /\ ~InvalidFile(r)
                      => req[r].outcome.error = "Error"

\* C18 witness: a thumbnail upload with a forged credential for a record
\* that does not exist was answered Unauthorized, and a video upload by a
\* user who does not own the record was answered Forbidden.
C18_Witness ==
    \E r \in Requests, q \in Requests :
        /\ req[r].handler = "handlerUploadThumbnail" /\ Rejected(r, "Unauthorized")
        /\ req[r].headers.present /\ NoSuchRecord(r) /\ req[r].videoId # ""
        /\ req[q].handler = "handlerUploadVideo" /\ Rejected(q, "UserForbiddenError")
        /\ ~BadCredential(q) /\ NotOwner(q)

\* C19: a thumbnail upload writes a file and the record only with a file
\* field of at most 10 MiB declared image/jpeg or image/png, and then
\* answers 200 with the file on disk and its URL in the record; with any
\* other field it is rejected with BadRequest, no file written and the
\* record as it was.
C19_ThumbnailValidated ==
    \A r \in Requests :
        req[r].handler = "handlerUploadThumbnail" =>
            LET path == "./assets/thumbnails/" \o req[r].thumbnailFilename
                url  == "http://localhost:8091/assets/thumbnails/"
                            \o req[r].thumbnailFilename
            IN  /\ effects[r].wrote # {} \/ effects[r].updated
                     => /\ req[r].file.isFile
                        /\ req[r].file.size <= 10485760
                        /\ req[r].file.type \in {"image/jpeg", "image/png"}
                /\ Done(r) /\ effects[r].bodyRead /\ InvalidFile(r)
                     => /\ Rejected(r, "BadRequestError")
                        /\ effects[r].wrote = {} /\ ~effects[r].updated
                        /\ \A p \in DOMAIN fs : fs[p].owner # r
                        /\ Undisturbed(r) => db[req[r].videoId] = req[r].video
                /\ Done(r) /\ effects[r].bodyRead /\ ~InvalidFile(r)
                     => /\ req[r].outcome.status = 200
                        /\ effects[r].wrote = {path} /\ path \in DOMAIN fs
                        /\ effects[r].updated
                        /\ Undisturbed(r) => db[req[r].videoId].thumbnailURL = url

\* C19 witness: a JPEG of exactly 10 MiB has been saved, and a GIF has been
\* rejected.
C19_Witness ==
    \E r \in Requests, q \in Requests :
        /\ req[r].handler = "handlerUploadThumbnail" /\ Done(r)
        /\ req[r].outcome.status = 200 /\ req[r].file.size = 10485760
        /\ effects[r].wrote # {} /\ effects[r].updated
        /\ req[q].handler = "handlerUploadThumbnail"
        /\ Rejected(q, "BadRequestError") /\ req[q].file.type = "image/gif"

(***************************************************************************)
(* Properties of the prober.                                               *)
(***************************************************************************)
Called == probeRet # NotCalled
\* ffprobe exited with 0 and printed an object with a first stream.
HasFirstStream ==
    /\ probeArg.exited = 0
    /\ probeArg.stdout.t = "object"
    /\ probeArg.stdout.streams.t = "array"
    /\ probeArg.stdout.streams.items # <<>>
IsPositiveInteger(v) == v.t = "number" /\ v.s = 1 /\ v.d = 1 /\ v.n > 0
HasPositiveIntegerDims ==
    /\ HasFirstStream
    /\ IsPositiveInteger(probeArg.stdout.streams.items[1].width)
    /\ IsPositiveInteger(probeArg.stdout.streams.items[1].height)
Distance(a, b) == IF a < b THEN b - a ELSE a - b
\* |w/h - 16/9| < 1/20 and |w/h - 9/16| < 1/20 in exact arithmetic.
NearLandscape(w, h) == 20 * Distance(9 * w, 16 * h) < 9 * h
NearPortrait(w, h) == 20 * Distance(16 * w, 9 * h) < 16 * h

\* C6: positive integers width and height are classified landscape when
\* |width/height - 16/9| < 0.05, portrait when |width/height - 9/16| < 0.05,
\* and other in every remaining case.
C6_ClassifiedByRatio ==
    Called /\ HasPositiveIntegerDims =>
        LET w == probeArg.stdout.streams.items[1].width.n
            h == probeArg.stdout.streams.items[1].height.n
        IN  /\ ~probeRet.throws
            /\ probeRet.value =
                 IF NearLandscape(w, h) THEN "landscape"
                 ELSE IF NearPortrait(w, h) THEN "portrait"
                 ELSE "other"

\* What the code does instead: as C6, except that a ratio exactly 0.05 below
\* 16/9 (311:180) is landscape too, the double nearest to 311/180 being less
\* than 0.05 away from the double nearest to 16/9.
ClassifiedByRatioInDoubles ==
    Called /\ HasPositiveIntegerDims =>
        LET w == probeArg.stdout.streams.items[1].width.n
            h == probeArg.stdout.streams.items[1].height.n
        IN  /\ ~probeRet.throws
            /\ probeRet.value =
                 IF NearLandscape(w, h) \/ 180 * w = 311 * h THEN "landscape"
                 ELSE IF NearPortrait(w, h) THEN "portrait"
                 ELSE "other"

\* C7: the prober throws whenever ffprobe exits non-zero or the first video
\* stream's width or height is not a positive integer (zero, missing,
\* non-numeric, negative, fractional).
C7_ProberFailsOnBadOutput ==
    Called /\ (probeArg.exited # 0 \/ ~HasPositiveIntegerDims) => probeRet.throws

====
